---------------------------- MODULE Spec2Model ----------------------------
(***************************************************************************)
(* A model of asias_fds_profiles: the example measure nodes of             *)
(* example_profile.py and parallel_profile.py (their derive methods), the   *)
(* flight-set selector functions, and the IPython-parallel driver script.   *)
(*                                                                         *)
(* The analysis engine (analysis_engine.node / analysis_engine.library),    *)
(* glob, the Oracle query helper fds_oracle and IPython.parallel are not    *)
(* part of the repository sources; the operators that stand for them are    *)
(* written from the specification and from the way the sources call them.   *)
(***************************************************************************)
EXTENDS Integers, Sequences, FiniteSets, TLC

VARIABLES
    module,    \* "example_profile" or "parallel_profile": the module in use
    \* the measure nodes
    node,      \* the node class whose derive is exercised in this behaviour
    deps,      \* the resolved dependencies: live references handed to derive
    deps0,     \* history: the dependencies as the upstream nodes computed them
    outs,      \* history: one entry per derive invocation, [self, exc]
    \* the flight-set selectors
    fs,        \* the filesystem: directory -> listing (file names in os.listdir order)
    table,     \* the rows of fds_flight_record, joined with their KPV names
    selector,  \* the selector function called last ("" before any call)
    query,     \* the query that call handed to fds_oracle (NoQuery for a glob)
    retrieved, \* what glob.glob / flight_record_filepaths returned to that call
    ret,       \* the value the selector returned
    \* the IPython-parallel driver (parallel_profile.py run as a script)
    pc,                 \* the statement the driver script is at
    FILE_REPOSITORY,    \* the selector's repository tag
    FILES_TO_PROCESS,   \* the selector's file list
    engine_count,       \* len(c.ids)
    ns,                 \* engine -> its namespace (name -> value)
    eng,                \* engine -> "idle", "queued", "running", "done", "NameError"
    calls,              \* engine -> the run_analyzer calls it made (arguments)
    runs,               \* engine -> the flights run_analyzer has processed there
    output_dir_exists,  \* os.path.exists(output_dir)
    run_profile_calls,  \* the helper.run_profile calls of example_profile.py's script
    \* notebook_utils.py called from a notebook
    figsize,            \* pylab.rcParams['figure.figsize']
    nb_log              \* the calls made so far: function, arguments, outcome

nodeVars == <<node, deps, deps0, outs>>
selVars == <<fs, table, selector, query, retrieved, ret>>
parVars == <<pc, FILE_REPOSITORY, FILES_TO_PROCESS, engine_count, ns, eng, calls, runs,
             output_dir_exists, run_profile_calls>>
nbVars == <<figsize, nb_log>>
vars == <<module, nodeVars, selVars, parVars, nbVars>>

---------------------------------------------------------------------------
(* Bounds of the model                                                     *)

\* longest sampled series (number of samples)
MaxLen == 4

\* most sections in an 'Airborne' or 'Grounded' section list; 'Approach' and
\* 'Final Approach' lists hold up to one more (MaxApproaches)
MaxSections == 1

\* largest start_edge of an 'Approach' / 'Final Approach' section
MaxEdge == 1

\* derive invocations per behaviour (each on a fresh node, same dependencies)
MaxCalls == 2

\* airspeed values are multiples of Unit so that linear interpolation over a
\* masked run of up to five samples stays in the integers
Unit == 3 * 4 * 5

MaxApproaches == MaxSections + 1

---------------------------------------------------------------------------
(* Python / numpy helpers                                                  *)

RECURSIVE py_min(_)
\* Python's min() over a non-empty list
py_min(xs) ==
    IF Len(xs) = 1 THEN xs[1]
    ELSE LET m == py_min(Tail(xs)) IN IF xs[1] <= m THEN xs[1] ELSE m

\* min([]) raises ValueError
py_min_raises(xs) == Len(xs) = 0

\* the result of a derive invocation: the records the node holds (self), the
\* exception that escaped (or "none"), and the dependencies as derive left them
Result(self, exc, d) == [self |-> self, exc |-> exc, deps |-> d]

---------------------------------------------------------------------------
(* Section = namedtuple('Section', 'name slice start_edge stop_edge')       *)

Section(name, start, stop, start_edge, stop_edge) ==
    [name |-> name, slice |-> [start |-> start, stop |-> stop],
     start_edge |-> start_edge, stop_edge |-> stop_edge]

\* FlightPhaseNode.create_phase(slice): appends one Section whose slice is the
\* given slice and whose edges default to the slice bounds
create_phase(self, name, start, stop) ==
    Append(self, Section(name, start, stop, start, stop))

---------------------------------------------------------------------------
(* InitialApproach                                                         *)

\* [d.start_edge for d in sections]
start_edges(sections) == [i \in 1..Len(sections) |-> sections[i].start_edge]

\* a slip: the clipped slice bounds are used instead of the unclipped edges
InitialApproach_derive_clipped(approach, final) ==
    IF Len(approach) > 0 /\ Len(final) > 0
    THEN LET dbegin == py_min([i \in 1..Len(approach) |-> approach[i].slice.start])
             dend   == py_min([i \in 1..Len(final) |-> final[i].slice.start])
         IN Result(create_phase(<<>>, "Initial Approach", dbegin, dend), "none",
                   [approach |-> approach, final |-> final])
    ELSE Result(<<>>, "none", [approach |-> approach, final |-> final])

\* a slip: "or" for "and" in the guard, so min() meets an empty list
InitialApproach_derive_or(approach, final) ==
    IF Len(approach) > 0 \/ Len(final) > 0
    THEN IF py_min_raises(start_edges(approach)) \/ py_min_raises(start_edges(final))
         THEN Result(<<>>, "ValueError", [approach |-> approach, final |-> final])
         ELSE LET dbegin == py_min(start_edges(approach))
                  dend   == py_min(start_edges(final))
              IN Result(create_phase(<<>>, "Initial Approach", dbegin, dend), "none",
                        [approach |-> approach, final |-> final])
    ELSE Result(<<>>, "none", [approach |-> approach, final |-> final])

\* example_profile.InitialApproach.derive
InitialApproach_derive(approach, final) ==
    IF Len(approach) > 0 /\ Len(final) > 0
    THEN IF py_min_raises(start_edges(approach)) \/ py_min_raises(start_edges(final))
         THEN Result(<<>>, "ValueError", [approach |-> approach, final |-> final])
         ELSE LET dbegin == py_min(start_edges(approach))
                  dend   == py_min(start_edges(final))
              IN Result(create_phase(<<>>, "Initial Approach", dbegin, dend), "none",
                        [approach |-> approach, final |-> final])
    ELSE Result(<<>>, "none", [approach |-> approach, final |-> final])

\* parallel_profile.InitialApproach.derive (the same statements)
parallel_InitialApproach_derive(approach, final) ==
    IF Len(approach) > 0 /\ Len(final) > 0
    THEN IF py_min_raises(start_edges(approach)) \/ py_min_raises(start_edges(final))
         THEN Result(<<>>, "ValueError", [approach |-> approach, final |-> final])
         ELSE LET dbegin == py_min(start_edges(approach))
                  dend   == py_min(start_edges(final))
              IN Result(create_phase(<<>>, "Initial Approach", dbegin, dend), "none",
                        [approach |-> approach, final |-> final])
    ELSE Result(<<>>, "none", [approach |-> approach, final |-> final])

---------------------------------------------------------------------------
(* Flight attributes, and the hand-built KTIs and KPVs                      *)

\* FlightAttributeNode.set_flight_attr(value): the node holds the value
set_flight_attr(value) == [value |-> value]

\* KeyTimeInstance = recordtype('KeyTimeInstance', 'index name ...')
KeyTimeInstance(index, name) == [index |-> index, name |-> name]

\* KeyPointValue = recordtype('KeyPointValue', 'index value name ...')
KeyPointValue(index, value, name) == [index |-> index, value |-> value, name |-> name]

\* KeyTimeInstanceNode.create_kti(index): appends one instant under the node's name
create_kti(self, name, index) == Append(self, KeyTimeInstance(index, name))

\* KeyPointValueNode.create_kpv(index, value): appends one value under the node's name
create_kpv(self, name, index, value) == Append(self, KeyPointValue(index, value, name))

\* mydict.value[key] = value
dict_setitem(d, key, value) ==
    [k \in (DOMAIN d) \cup {key} |-> IF k = key THEN value ELSE d[k]]

SimpleAttribute_derive(start_datetime) ==
    Result(set_flight_attr("Keith"), "none", [start_datetime |-> start_datetime])

FileAttribute_derive(filename) ==
    Result(set_flight_attr(filename.value), "none", [filename |-> filename])

\* a slip: the list under 'testkey' is extended instead of assigned
MydictAttribute_derive_extend(mydict) ==
    LET old   == IF "testkey" \in DOMAIN mydict.value
                 THEN mydict.value["testkey"] ELSE <<>>
        value == dict_setitem(mydict.value, "testkey", old \o <<1, 2, 3>>)
    IN Result(set_flight_attr(value), "none", [mydict |-> [value |-> value]])

\* the dictionary held by the upstream 'Mydict' attribute is written in place,
\* and the node's value is that same dictionary
MydictAttribute_derive(mydict) ==
    LET value == dict_setitem(mydict.value, "testkey", <<1, 2, 3>>)
    IN Result(set_flight_attr(value), "none", [mydict |-> [value |-> value]])

SimpleKTI_derive(start_datetime) ==
    Result(create_kti(<<>>, "Simple KTI", 3), "none",
           [start_datetime |-> start_datetime])

SimplerKTI_derive(start_datetime) ==
    Result(Append(<<>>, KeyTimeInstance("700.", "My Simpler KTI")), "none",
           [start_datetime |-> start_datetime])

SimpleKPV_derive(start_datetime) ==
    Result(create_kpv(<<>>, "Simple KPV", "3.0", "999.9"), "none",
           [start_datetime |-> start_datetime])

SimplerKPV_derive(start_datetime) ==
    Result(Append(Append(<<>>, KeyPointValue("42.5", "666.6", "My Simpler KPV")),
                  KeyPointValue("42.5", "666.6", "My Simpler KPV 2")),
           "none", [start_datetime |-> start_datetime])

---------------------------------------------------------------------------
(* TCASRAStart                                                             *)
(* A series is a sequence; sample index i (from 0) is element i + 1.        *)

Up == "Up Advisory Corrective"
Down == "Down Advisory Corrective"

RECURSIVE state_changes(_, _, _, _, _, _)
\* the scan of one section for samples entering `state`: an instant at every
\* sample index p of the slice, after its first, that holds `state` while the
\* sample before it does not. Scans p upwards to stop (exclusive).
state_changes(self, name, state, array, p, stop) ==
    IF p >= stop \/ p >= Len(array) THEN self
    ELSE state_changes(
            IF array[p + 1] = state /\ array[p] # state
            THEN create_kti(self, name, p) ELSE self,
            name, state, array, p + 1, stop)

RECURSIVE create_ktis_on_state_change(_, _, _, _, _)
\* KeyTimeInstanceNode.create_ktis_on_state_change(state, array,
\* change='entering', phase=phase): one scan per section of the phase
create_ktis_on_state_change(self, name, state, array, phase) ==
    IF phase = <<>> THEN self
    ELSE create_ktis_on_state_change(
            state_changes(self, name, state, array,
                          phase[1].slice.start + 1, phase[1].slice.stop),
            name, state, array, Tail(phase))

\* tcas.array[np.ma.where(tcas.array == 'Down Advisory Corrective')] =
\*     'Up Advisory Corrective'
merge_down_into_up(array) ==
    [i \in 1..Len(array) |-> IF array[i] = Down THEN Up ELSE array[i]]

\* a slip: the Down advisories are not merged into Up before the scan
TCASRAStart_derive_unmerged(tcas, air) ==
    Result(create_ktis_on_state_change(<<>>, "TCAS RA Start", Up, tcas.array, air),
           "none", [tcas |-> tcas, air |-> air])

\* a slip: the scan is not restricted to the 'Airborne' sections (phase=air
\* left out), so the whole series is one scan
TCASRAStart_derive_unrestricted(tcas, air) ==
    LET array == merge_down_into_up(tcas.array)
    IN Result(state_changes(<<>>, "TCAS RA Start", Up, array, 1, Len(array)),
              "none", [tcas |-> [array |-> array], air |-> air])

\* a slip: Up and Down are scanned for one after the other, as two states
TCASRAStart_derive_two_scans(tcas, air) ==
    LET ups == create_ktis_on_state_change(<<>>, "TCAS RA Start", Up, tcas.array, air)
    IN Result(create_ktis_on_state_change(ups, "TCAS RA Start", Down, tcas.array, air),
              "none", [tcas |-> tcas, air |-> air])

\* example_profile.TCASRAStart.derive: the upstream array is rewritten in
\* place, then scanned once
TCASRAStart_derive(tcas, air) ==
    LET array == merge_down_into_up(tcas.array)
    IN Result(create_ktis_on_state_change(<<>>, "TCAS RA Start", Up, array, air),
              "none", [tcas |-> [array |-> array], air |-> air])

\* parallel_profile.TCASRAStart.derive: two scans of the untouched array
parallel_TCASRAStart_derive(tcas, air) ==
    LET ups == create_ktis_on_state_change(<<>>, "TCAS RA Start", Up, tcas.array, air)
    IN Result(create_ktis_on_state_change(ups, "TCAS RA Start", Down, tcas.array, air),
              "none", [tcas |-> tcas, air |-> air])

---------------------------------------------------------------------------
(* DistanceTravelledInAir                                                  *)
(* A sample of a masked array is [v |-> data, m |-> masked].                *)

Sample(v, m) == [v |-> v, m |-> m]

\* array[section.slice] = 0.0: the samples of the slice become 0.0 and valid
zero_slice(array, slice) ==
    [i \in 1..Len(array) |->
        IF slice.start <= i - 1 /\ i - 1 < slice.stop THEN Sample(0, FALSE)
        ELSE array[i]]

RECURSIVE zero_sections(_, _)
\* for section in grounded: airspeed.array[section.slice] = 0.0
zero_sections(array, grounded) ==
    IF grounded = <<>> THEN array
    ELSE zero_sections(zero_slice(array, grounded[1].slice), Tail(grounded))

\* the first element index (from 1) of the masked run that holds element i
RunStart(array, i) ==
    CHOOSE s \in 1..i :
        /\ \A j \in s..i : array[j].m
        /\ (s = 1 \/ ~array[s - 1].m)

\* one past the last element index of the masked run that holds element i
RunStop(array, i) ==
    CHOOSE e \in (i + 1)..(Len(array) + 1) :
        /\ \A j \in i..(e - 1) : array[j].m
        /\ (e = Len(array) + 1 \/ ~array[e].m)

\* analysis_engine.library.repair_mask(array): every masked run with a valid
\* sample on both sides is filled by linear interpolation between them and
\* unmasked; a run at the start or at the end of the array stays masked
repair_mask(array) ==
    [i \in 1..Len(array) |->
        IF ~array[i].m THEN array[i]
        ELSE LET s == RunStart(array, i)
                 e == RunStop(array, i)
             IN IF s = 1 \/ e = Len(array) + 1 THEN array[i]
                ELSE LET start_value == array[s - 1].v
                         end_value   == array[e].v
                     IN Sample(start_value
                                 + ((end_value - start_value) * (i - s + 1)) \div (e - s + 1),
                               FALSE)]

\* k * (array + np.roll(array, 1)) in units of k = scale * 0.5 / frequency
to_int(array) ==
    [i \in 1..Len(array) |->
        LET prev == IF i = 1 THEN array[Len(array)] ELSE array[i - 1]
        IN Sample(array[i].v + prev.v, array[i].m \/ prev.m)]

RECURSIVE ma_cumsum(_, _)
\* np.ma.cumsum: masked elements add nothing and stay masked; the sum of the
\* first n elements' data
ma_cumsum(array, n) ==
    IF n = 0 THEN 0
    ELSE ma_cumsum(array, n - 1) + (IF array[n].m THEN 0 ELSE array[n].v)

integrate_raises(array) ==
    /\ \E i \in 1..Len(array) : ~array[i].m
    /\ \A i \in 1..Len(array) : to_int(array)[i].m

\* analysis_engine.library.integrate(array, frequency, scale): trapezoidal,
\* forwards, from an initial value of 0.0; the result is in units of k
integrate(array) ==
    IF \A i \in 1..Len(array) : array[i].m
    THEN [i \in 1..Len(array) |-> Sample(0, TRUE)]
    ELSE LET t     == to_int(array)
             first == CHOOSE i \in 1..Len(t) :
                         ~t[i].m /\ \A j \in 1..(i - 1) : t[j].m
             at    == IF first = 2 THEN 1 ELSE first
             t0    == [t EXCEPT ![at] = Sample(0, FALSE)]
         IN [i \in 1..Len(t0) |-> Sample(ma_cumsum(t0, i), t0[i].m)]

\* a slip: the grounded sections are not zeroed before the integration
DistanceTravelledInAir_derive_unzeroed(airspeed, grounded) ==
    LET repaired_array == repair_mask(airspeed.array)
    IN IF integrate_raises(repaired_array)
       THEN Result([array |-> <<>>], "TypeError",
                   [airspeed |-> [array |-> repaired_array], grounded |-> grounded])
       ELSE Result([array |-> integrate(repaired_array)], "none",
                   [airspeed |-> [array |-> repaired_array], grounded |-> grounded])

\* a slip: the masks are repaired before the grounded sections are zeroed
DistanceTravelledInAir_derive_repair_first(airspeed, grounded) ==
    LET repaired_array == zero_sections(repair_mask(airspeed.array), grounded)
    IN IF integrate_raises(repaired_array)
       THEN Result([array |-> <<>>], "TypeError",
                   [airspeed |-> [array |-> repaired_array], grounded |-> grounded])
       ELSE Result([array |-> integrate(repaired_array)], "none",
                   [airspeed |-> [array |-> repaired_array], grounded |-> grounded])

\* example_profile.DistanceTravelledInAir.derive: airspeed.array is the array
\* of the upstream parameter; it is zeroed and repaired in place
DistanceTravelledInAir_derive(airspeed, grounded) ==
    LET zeroed         == zero_sections(airspeed.array, grounded)
        repaired_array == repair_mask(zeroed)
    IN IF integrate_raises(repaired_array)
       THEN Result([array |-> <<>>], "TypeError",
                   [airspeed |-> [array |-> repaired_array], grounded |-> grounded])
       ELSE Result([array |-> integrate(repaired_array)], "none",
                   [airspeed |-> [array |-> repaired_array], grounded |-> grounded])

---------------------------------------------------------------------------
(* Inputs                                                                  *)

\* sequences over S of length 0..n
SeqUpTo(S, n) == UNION {[1..k -> S] : k \in 0..n}

\* a section of 'Approach' or 'Final Approach': start_edge is the unclipped
\* edge, and the slice is clipped inwards to whole samples, so slice.start is
\* start_edge or one more
EdgeSections(name) ==
    {Section(name, se + clip, se + clip + 1, se, se + clip + 1) :
        se \in 0..MaxEdge, clip \in {0, 1}}

InitialApproachDeps ==
    {[approach |-> a, final |-> f] :
        a \in SeqUpTo(EdgeSections("Approach"), MaxApproaches),
        f \in SeqUpTo(EdgeSections("Final Approach"), MaxApproaches)}

\* the section lists of a phase over a series of n samples: up to MaxSections
\* sections, each non-empty, in time order and not overlapping
PhaseSections(name, n) ==
    {[i \in 1..Len(q) |-> Section(name, q[i][1], q[i][2], q[i][1], q[i][2])] :
        q \in {r \in SeqUpTo((0..n) \X (0..n), MaxSections) :
                 /\ \A i \in 1..Len(r) : r[i][1] < r[i][2]
                 /\ \A i \in 1..(Len(r) - 1) : r[i][2] <= r[i + 1][1]}}

TCASStates == {"No Advisory", Up, Down}

TCASRAStartDeps ==
    UNION {{[tcas |-> [array |-> a], air |-> p] :
                a \in [1..n -> TCASStates], p \in PhaseSections("Airborne", n)} :
           n \in 1..MaxLen}

AirspeedSamples == {Sample(Unit, FALSE), Sample(2 * Unit, FALSE), Sample(Unit, TRUE)}

DistanceTravelledInAirDeps ==
    UNION {{[airspeed |-> [array |-> a], grounded |-> p] :
                a \in [1..n -> AirspeedSamples], p \in PhaseSections("Grounded", n)} :
           n \in 1..MaxLen}

StartDatetimes == {"2013-04-01 00:00:00", "2013-11-30 12:00:00"}

StartDatetimeDeps == {[start_datetime |-> [value |-> t]] : t \in StartDatetimes}

MyfileDeps == {[filename |-> [value |-> f]] : f \in {"a.hdf5", "b.hdf5"}}

MydictDeps ==
    {[mydict |-> [value |-> d]] :
        d \in {<<>>,
               "testkey" :> <<9>>,
               "testkey" :> <<1, 2, 3>>,
               "otherkey" :> <<0>>,
               ("otherkey" :> <<0>>) @@ ("testkey" :> <<9>>)}}

---------------------------------------------------------------------------
(* Flight-set selectors: Python values, glob and the flight-record query    *)

PyStr(x) == [type |-> "str", v |-> x]
PyList(xs) == [type |-> "list", v |-> xs]

\* return repo, files_to_process
PyReturn(repo, files_to_process) == <<PyStr(repo), PyList(files_to_process)>>

\* xs[:k]
py_head(xs, k) == SubSeq(xs, 1, IF Len(xs) < k THEN Len(xs) ELSE k)

HDF5 == "hdf5"

\* os.path.join(input_dir, name)
Path(input_dir, name) == [dir |-> input_dir, name |-> name]

\* glob.glob(os.path.join(input_dir, '*.hdf5')): the paths of the directory's
\* entries named *.hdf5, in listing order
glob_hdf5(FS, input_dir) ==
    LET listing == FS[input_dir]
        names   == SelectSeq(listing, LAMBDA f : f.ext = HDF5)
    IN [i \in 1..Len(names) |-> Path(input_dir, names[i])]

\* the directories the selectors read
TinyTestDir == <<"BASE_DATA_PATH", "tiny_test/">>
Ffd897Dir == <<"BASE_DATA_PATH", "ffd897/">>
ScratchTest10Dir == <<"/opt/scratch/test10/">>
Test10Dir == <<"BASE_DATA_PATH", "test10/">>
Test100Dir == <<"BASE_DATA_PATH", "OPERATOR_FOLDER", "2012-07-13/">>

Dirs == {TinyTestDir, Ffd897Dir, ScratchTest10Dir, Test10Dir, Test100Dir}

\* files_to_process[:100] in test100
Test100Cap == 100

\* files_to_process[:40] in test_sql_jfk and in example_profile.test_kpv_range
QueryCap == 40

\* rownum<=5 in each branch of test_multifleet's query
FleetRownum == 5

NoLimit == 0 - 1

KJFK == "KJFK"
KFLL == "KFLL"
KMCO == "KMCO"
KIAD == "KIAD"
AnyIcao == {KJFK, KFLL, KMCO, KIAD}
AnyFleet == {"B747-200", "CRJ 700", "A320-200", "B737-800"}
Airspeed500To20FtMax == "Airspeed 500 To 20 Ft Max"

\* one select ... from fds_flight_record where ... [and rownum<=n]
Branch(repo, orig, dest, fleet, kpv_name, rownum) ==
    [file_repository |-> repo, orig_icao |-> orig, dest_icao |-> dest,
     fleet_series |-> fleet, kpv_name |-> kpv_name, rownum |-> rownum]

\* a query text: its branches (joined by union all), select distinct, order by
Query(branches, distinct, order_by) ==
    [branches |-> branches, distinct |-> distinct, order_by |-> order_by]

NoQuery == Query(<<>>, FALSE, FALSE)

\* query.replace('REPO', repo)
replace_REPO(q, repo) ==
    [q EXCEPT !.branches =
        [i \in 1..Len(q.branches) |->
            IF q.branches[i].file_repository = "REPO"
            THEN [q.branches[i] EXCEPT !.file_repository = repo]
            ELSE q.branches[i]]]

\* the where clause of one branch (rownum apart)
Matches(row, b) ==
    /\ row.file_repository = b.file_repository
    /\ row.orig_icao \in b.orig_icao
    /\ row.dest_icao \in b.dest_icao
    /\ row.fleet_series \in b.fleet_series
    /\ (b.kpv_name # "" => b.kpv_name \in row.kpv_names)

\* the file paths of the rows of one branch, in table order, cut at rownum
branch_paths(b, TABLE) ==
    LET rows == SelectSeq(TABLE, LAMBDA row : Matches(row, b))
        all  == [i \in 1..Len(rows) |-> rows[i].file_path]
    IN IF b.rownum = NoLimit THEN all ELSE py_head(all, b.rownum)

RECURSIVE union_all(_, _)
union_all(branches, TABLE) ==
    IF branches = <<>> THEN <<>>
    ELSE branch_paths(branches[1], TABLE) \o union_all(Tail(branches), TABLE)

\* select distinct: each path once, at its first place
distinct_paths(xs) ==
    LET at   == [i \in 1..Len(xs) |-> <<i, xs[i]>>]
        kept == SelectSeq(at, LAMBDA q : \A j \in 1..(q[1] - 1) : xs[j] # q[2])
    IN [i \in 1..Len(kept) |-> kept[i][2]]

\* order by file_path: the j-th path is the one with fewer than j paths below
\* it and at least j paths not above it
order_by_path(xs) ==
    [j \in 1..Len(xs) |->
        CHOOSE v \in {xs[i] : i \in 1..Len(xs)} :
            /\ Cardinality({i \in 1..Len(xs) : xs[i] < v}) < j
            /\ j <= Cardinality({i \in 1..Len(xs) : xs[i] <= v})]

\* fds_oracle.flight_record_filepaths(query): the ordered sequence of file
\* paths the query selects
flight_record_filepaths(q, TABLE) ==
    LET rows == union_all(q.branches, TABLE)
        d    == IF q.distinct THEN distinct_paths(rows) ELSE rows
    IN IF q.order_by THEN order_by_path(d) ELSE d

\* what a selector call leaves: the value returned, the query issued and what
\* the retrieval (glob or query) gave back
Selected(value, q, got) == [ret |-> value, query |-> q, retrieved |-> got]

---------------------------------------------------------------------------
(* Section 3 of example_profile.py and parallel_profile.py: the selectors   *)

\* a slip: the pattern '*' for '*.hdf5'
tiny_test_any_file(FS) ==
    LET listing == FS[TinyTestDir]
        files_to_process == [i \in 1..Len(listing) |-> Path(TinyTestDir, listing[i])]
    IN Selected(PyReturn("linux", files_to_process), NoQuery, files_to_process)

\* a slip: return files_to_process, repo
test10_swapped(FS) ==
    LET got == glob_hdf5(FS, Test10Dir)
    IN Selected(<<PyList(got), PyStr("linux")>>, NoQuery, got)

tiny_test(FS) ==
    LET got == glob_hdf5(FS, TinyTestDir)
        files_to_process == got
    IN Selected(PyReturn("linux", files_to_process), NoQuery, got)

ffd_test10(FS) ==
    LET got == glob_hdf5(FS, Ffd897Dir)
        files_to_process == got
    IN Selected(PyReturn("linux", files_to_process), NoQuery, got)

test10_scratch(FS) ==
    LET got == glob_hdf5(FS, ScratchTest10Dir)
        files_to_process == got
    IN Selected(PyReturn("cockpit", files_to_process), NoQuery, got)

test10(FS) ==
    LET got == glob_hdf5(FS, Test10Dir)
        files_to_process == got
    IN Selected(PyReturn("linux", files_to_process), NoQuery, got)

test100(FS) ==
    LET got == glob_hdf5(FS, Test100Dir)
        files_to_process == py_head(got, Test100Cap)
    IN Selected(PyReturn("keith", files_to_process), NoQuery, got)

parallel_tiny_test(FS) ==
    LET got == glob_hdf5(FS, TinyTestDir)
        files_to_process == got
    IN Selected(PyReturn("keith", files_to_process), NoQuery, got)

parallel_test10(FS) ==
    LET got == glob_hdf5(FS, Test10Dir)
        files_to_process == got
    IN Selected(PyReturn("NA", files_to_process), NoQuery, got)

parallel_test100(FS) ==
    LET got == glob_hdf5(FS, Test100Dir)
        files_to_process == py_head(got, Test100Cap)
    IN Selected(PyReturn("keith", files_to_process), NoQuery, got)

\* select distinct file_path ... where file_repository=<repo> and
\* orig_icao='KJFK' and dest_icao in ('KFLL','KMCO')
JfkQuery(repo) ==
    Query(<<Branch(repo, {KJFK}, {KFLL, KMCO}, AnyFleet, "", NoLimit)>>, TRUE, FALSE)

\* select distinct file_path ... where file_repository=<repo> and dest_icao in (<dest>)
DestQuery(repo, dest) ==
    Query(<<Branch(repo, AnyIcao, {dest}, AnyFleet, "", NoLimit)>>, TRUE, FALSE)

\* three selects, one per fleet, each with rownum<=5, joined by union all
MultifleetQuery ==
    Query(<<Branch("linux", AnyIcao, AnyIcao, {"B747-200"}, "", FleetRownum),
            Branch("linux", AnyIcao, AnyIcao, {"CRJ 700"}, "", FleetRownum),
            Branch("linux", AnyIcao, AnyIcao, {"A320-200"}, "", FleetRownum)>>,
          FALSE, FALSE)

\* select distinct f.file_path from fds_flight_record f join fds_kpv kpv ...
\* where f.file_repository='REPO' and f.orig_icao='KIAD' and f.dest_icao='KFLL'
\* and kpv.name='Airspeed 500 To 20 Ft Max' order by file_path
KpvRangeQuery ==
    Query(<<Branch("REPO", {KIAD}, {KFLL}, AnyFleet, Airspeed500To20FtMax, NoLimit)>>,
          TRUE, TRUE)

\* a slip: the last 40 paths for the first 40
test_sql_jfk_tail(TABLE) ==
    LET q   == JfkQuery("central")
        got == flight_record_filepaths(q, TABLE)
        files_to_process ==
            SubSeq(got, IF Len(got) > QueryCap THEN Len(got) - QueryCap + 1 ELSE 1, Len(got))
    IN Selected(PyReturn("central", files_to_process), q, got)

test_sql_jfk(TABLE) ==
    LET q   == JfkQuery("central")
        got == flight_record_filepaths(q, TABLE)
        files_to_process == py_head(got, QueryCap)
    IN Selected(PyReturn("central", files_to_process), q, got)

test_sql_jfk_local(TABLE) ==
    LET q   == replace_REPO(JfkQuery("REPO"), "local")
        got == flight_record_filepaths(q, TABLE)
        files_to_process == got
    IN Selected(PyReturn("local", files_to_process), q, got)

fll_local(TABLE) ==
    LET q   == replace_REPO(DestQuery("REPO", KFLL), "local")
        got == flight_record_filepaths(q, TABLE)
        files_to_process == got
    IN Selected(PyReturn("local", files_to_process), q, got)

test_multifleet(TABLE) ==
    LET q   == MultifleetQuery
        got == flight_record_filepaths(q, TABLE)
        files_to_process == got
    IN Selected(PyReturn("linux", files_to_process), q, got)

test_kpv_range(TABLE) ==
    LET q   == replace_REPO(KpvRangeQuery, "linux")
        got == flight_record_filepaths(q, TABLE)
        files_to_process == py_head(got, QueryCap)
    IN Selected(PyReturn("linux", files_to_process), q, got)

parallel_test_sql_jfk(TABLE) ==
    LET q   == JfkQuery("central")
        got == flight_record_filepaths(q, TABLE)
        files_to_process == py_head(got, QueryCap)
    IN Selected(PyReturn("central", files_to_process), q, got)

parallel_test_sql_jfk_local(TABLE) ==
    LET q   == replace_REPO(JfkQuery("REPO"), "local")
        got == flight_record_filepaths(q, TABLE)
        files_to_process == got
    IN Selected(PyReturn("local", files_to_process), q, got)

parallel_fll_local(TABLE) ==
    LET q   == replace_REPO(DestQuery("local", KFLL), "local")
        got == flight_record_filepaths(q, TABLE)
        files_to_process == got
    IN Selected(PyReturn("local", files_to_process), q, got)

parallel_jfk_local(TABLE) ==
    LET q   == replace_REPO(DestQuery("local", KJFK), "local")
        got == flight_record_filepaths(q, TABLE)
        files_to_process == got
    IN Selected(PyReturn("local", files_to_process), q, got)

parallel_test_kpv_range(TABLE) ==
    LET q   == replace_REPO(KpvRangeQuery, "linux")
        got == flight_record_filepaths(q, TABLE)
        files_to_process == got
    IN Selected(PyReturn("linux", files_to_process), q, got)

---------------------------------------------------------------------------
(* The environment of the selectors                                        *)

\* most files of a directory named *.hdf5
MaxHdf5 == 101

\* most other files of a directory
MaxOther == 1

\* most rows of fds_flight_record taken from one template
MaxRows == 41

FileName(stem, ext) == [stem |-> stem, ext |-> ext]

\* a listing of n files named *.hdf5 with m other files put in after the
\* first k of them
Listing(n, m, k) ==
    [i \in 1..(n + m) |->
        IF i <= k THEN FileName(i, HDF5)
        ELSE IF i <= k + m THEN FileName(i, "txt")
        ELSE FileName(i, HDF5)]

Listings ==
    {Listing(n, m, k) : <<n, m, k>> \in
        {t \in (0..MaxHdf5) \X (0..MaxOther) \X (0..MaxHdf5) :
            t[3] \in {0, t[1] \div 2, t[1]}}}

\* one directory holds files, the others are empty
Filesystems ==
    {[d \in Dirs |-> IF d = populated THEN listing ELSE <<>>] :
        populated \in Dirs, listing \in Listings}

EmptyFilesystem == [d \in Dirs |-> <<>>]

Row(file_path, repo, orig, dest, fleet, kpv_names) ==
    [file_path |-> file_path, file_repository |-> repo, orig_icao |-> orig,
     dest_icao |-> dest, fleet_series |-> fleet, kpv_names |-> kpv_names]

\* the kinds of flight record the queries tell apart
RowTemplates ==
    {Row(0, "central", KJFK, KFLL, "B737-800", {}),
     Row(0, "local", KJFK, KMCO, "B737-800", {}),
     Row(0, "local", KIAD, KFLL, "B737-800", {}),
     Row(0, "local", KIAD, KJFK, "B737-800", {}),
     Row(0, "linux", KIAD, KFLL, "B747-200", {Airspeed500To20FtMax}),
     Row(0, "linux", KJFK, KMCO, "CRJ 700", {}),
     Row(0, "linux", KIAD, KFLL, "A320-200", {Airspeed500To20FtMax})}

\* n rows of one template, their file paths falling or rising, followed by
\* nothing ("none"), by the first row once more ("again"), or by a row of
\* another template ("other")
Tables ==
    {[i \in 1..(n + (IF extra = "none" THEN 0 ELSE 1)) |->
        IF i <= n THEN [t EXCEPT !.file_path = IF rising THEN i ELSE n + 1 - i]
        ELSE IF extra = "again" THEN [t EXCEPT !.file_path = IF rising THEN 1 ELSE n]
        ELSE [o EXCEPT !.file_path = n + 1]] :
        <<n, t, rising, extra, o>> \in
            {q \in (0..MaxRows) \X RowTemplates \X BOOLEAN
                    \X {"none", "again", "other"} \X RowTemplates :
                /\ (q[4] = "other") = (q[5] # q[2])
                /\ (q[4] = "again" => q[1] > 0)}}

---------------------------------------------------------------------------
(* notebook_utils.py: the derive helpers and the graph helpers              *)

\* most calls made from the notebook
MaxNbCalls == 2

\* the profile's node classes a notebook passes in
NodeClasses == {"SimpleAttribute", "SimpleKPV"}

\* the flights (objects of class Flight) a notebook has loaded
Flights_nb == {"a.hdf5"}

\* dicts of previously computed nodes, as the set of their names
PrecomputedDicts == SUBSET {"Airspeed True", "SimpleKPV"}

\* staged_helper.derive_parameters_series(flight, node_mgr, process_order,
\* precomputed): a node in precomputed is taken as computed, the others of the
\* process order are derived; params holds both
derive_parameters_series(flight, process_order, precomputed) ==
    [flight |-> flight,
     precomputed |-> precomputed,
     derived |-> process_order \ precomputed,
     params |-> process_order \cup precomputed]

\* the record of one call: what the engine was called with (if it was),
\* what was printed, and the exception that reached the caller ("none" if
\* the call returned)
NbResult(engine, printed, exc) == [engine |-> engine, printed |-> printed, exc |-> exc]

derive_many(flt, myvars, precomputed) ==
    NbResult(<<derive_parameters_series(flt, myvars, {})>>, <<>>, "none")

derive_one(parameter_class, flight, precomputed) ==
    LET single_request == {parameter_class}
    IN NbResult(<<derive_parameters_series(flight, single_request, {})>>, <<>>, "none")

derive_attr(attribute_class, flight, precomputed) ==
    derive_one(attribute_class, flight, {})

\* what nx.draw_networkx(graph, pos=nx.spring_layout(graph), ...) can do:
\* return, or raise
DrawOutcomes == {"ok", "NetworkXError", "TypeError", "KeyboardInterrupt"}

FigsizeLarge == <<16, 12>>
FigsizeSmall == <<10, 4>>

\* a slip: "except: ... raise", so the failure reaches the caller and the
\* figure size is not put back
show_graph_reraise(draw) ==
    IF draw = "ok"
    THEN [figsize |-> FigsizeSmall, printed |-> <<>>, exc |-> "none"]
    ELSE [figsize |-> FigsizeLarge,
          printed |-> <<"hmm, apparently bogus exception">>, exc |-> draw]

\* show_graph(graph, font_size) when the drawing ends as `draw`
show_graph(draw) ==
    [figsize |-> FigsizeSmall,
     printed |-> IF draw = "ok" THEN <<>> ELSE <<"hmm, apparently bogus exception">>,
     exc |-> "none"]

\* single_graph(parameter_class, flight): the dependency order is computed
\* with draw=False, then show_graph draws it
single_graph(parameter_class, flight, draw) == show_graph(draw)

IdleNotebook ==
    /\ figsize = <<>>
    /\ nb_log = <<>>

---------------------------------------------------------------------------
(* The driver's variables while no driver runs                            *)

\* the namespace of an engine started for this run, and of one left running
\* by an earlier run that bound output_dir and reports_dir
FreshNamespace == <<>>
StaleNamespace == ("output_dir" :> "old_output_dir") @@ ("reports_dir" :> "old_reports_dir")

IdleParallel ==
    /\ pc = 0
    /\ FILE_REPOSITORY = ""
    /\ FILES_TO_PROCESS = <<>>
    /\ engine_count = 0
    /\ ns = <<>>
    /\ eng = <<>>
    /\ calls = <<>>
    /\ runs = <<>>
    /\ output_dir_exists = FALSE
    /\ run_profile_calls = <<>>

---------------------------------------------------------------------------
(* The state machine of the selectors                                      *)

IdleSelectors ==
    /\ fs = EmptyFilesystem
    /\ table = <<>>
    /\ selector = ""
    /\ query = NoQuery
    /\ retrieved = <<>>
    /\ ret = <<>>

IdleNodes ==
    /\ node = ""
    /\ deps = <<>>
    /\ deps0 = <<>>
    /\ outs = <<>>

InitSelectors ==
    /\ module \in {"example_profile", "parallel_profile"}
    /\ \/ fs \in Filesystems /\ table = <<>>
       \/ fs = EmptyFilesystem /\ table \in Tables
    /\ selector = ""
    /\ query = NoQuery
    /\ retrieved = <<>>
    /\ ret = <<>>
    /\ IdleNodes
    /\ IdleParallel
    /\ IdleNotebook

\* the driver script calls one selector function
Select(name, r) ==
    /\ selector = ""
    /\ selector' = name
    /\ query' = r.query
    /\ retrieved' = r.retrieved
    /\ ret' = r.ret
    /\ UNCHANGED <<module, fs, table, nodeVars, parVars, nbVars>>

Call_tiny_test ==
    /\ module = "example_profile"
    /\ Select("tiny_test", tiny_test(fs))

Call_ffd_test10 ==
    /\ module = "example_profile"
    /\ Select("ffd_test10", ffd_test10(fs))

Call_test10_scratch ==
    /\ module = "example_profile"
    /\ Select("test10_scratch", test10_scratch(fs))

Call_test10 ==
    /\ module = "example_profile"
    /\ Select("test10", test10(fs))

Call_test100 ==
    /\ module = "example_profile"
    /\ Select("test100", test100(fs))

Call_parallel_tiny_test ==
    /\ module = "parallel_profile"
    /\ Select("tiny_test", parallel_tiny_test(fs))

Call_parallel_test10 ==
    /\ module = "parallel_profile"
    /\ Select("test10", parallel_test10(fs))

Call_parallel_test100 ==
    /\ module = "parallel_profile"
    /\ Select("test100", parallel_test100(fs))

Call_test_sql_jfk ==
    /\ module = "example_profile"
    /\ Select("test_sql_jfk", test_sql_jfk(table))

Call_test_sql_jfk_local ==
    /\ module = "example_profile"
    /\ Select("test_sql_jfk_local", test_sql_jfk_local(table))

Call_fll_local ==
    /\ module = "example_profile"
    /\ Select("fll_local", fll_local(table))

Call_test_multifleet ==
    /\ module = "example_profile"
    /\ Select("test_multifleet", test_multifleet(table))

Call_test_kpv_range ==
    /\ module = "example_profile"
    /\ Select("test_kpv_range", test_kpv_range(table))

Call_parallel_test_sql_jfk ==
    /\ module = "parallel_profile"
    /\ Select("test_sql_jfk", parallel_test_sql_jfk(table))

Call_parallel_test_sql_jfk_local ==
    /\ module = "parallel_profile"
    /\ Select("test_sql_jfk_local", parallel_test_sql_jfk_local(table))

Call_parallel_fll_local ==
    /\ module = "parallel_profile"
    /\ Select("fll_local", parallel_fll_local(table))

Call_parallel_jfk_local ==
    /\ module = "parallel_profile"
    /\ Select("jfk_local", parallel_jfk_local(table))

Call_parallel_test_kpv_range ==
    /\ module = "parallel_profile"
    /\ Select("test_kpv_range", parallel_test_kpv_range(table))

NextSelectors ==
    \/ Call_tiny_test
    \/ Call_ffd_test10
    \/ Call_test10_scratch
    \/ Call_test10
    \/ Call_test100
    \/ Call_parallel_tiny_test
    \/ Call_parallel_test10
    \/ Call_parallel_test100
    \/ Call_test_sql_jfk
    \/ Call_test_sql_jfk_local
    \/ Call_fll_local
    \/ Call_test_multifleet
    \/ Call_test_kpv_range
    \/ Call_parallel_test_sql_jfk
    \/ Call_parallel_test_sql_jfk_local
    \/ Call_parallel_fll_local
    \/ Call_parallel_jfk_local
    \/ Call_parallel_test_kpv_range

SpecSelectors == InitSelectors /\ [][NextSelectors]_vars

---------------------------------------------------------------------------
(* The state machine of the measure nodes                                  *)

StartDatetimeNodes == {"SimpleAttribute", "SimpleKTI", "SimplerKTI", "SimpleKPV", "SimplerKPV"}

InitInitialApproach ==
    /\ node = "InitialApproach"
    /\ module \in {"example_profile", "parallel_profile"}
    /\ deps \in InitialApproachDeps

InitTCASRAStart ==
    /\ node = "TCASRAStart"
    /\ module \in {"example_profile", "parallel_profile"}
    /\ deps \in TCASRAStartDeps

InitDistanceTravelledInAir ==
    /\ node = "DistanceTravelledInAir"
    /\ module = "example_profile"
    /\ deps \in DistanceTravelledInAirDeps

InitAttributes ==
    /\ module = "example_profile"
    /\ \/ node \in StartDatetimeNodes /\ deps \in StartDatetimeDeps
       \/ node = "FileAttribute" /\ deps \in MyfileDeps
       \/ node = "MydictAttribute" /\ deps \in MydictDeps

\* one flight and one node: the engine has resolved the node's dependencies
Init ==
    /\ \/ InitInitialApproach
       \/ InitTCASRAStart
       \/ InitDistanceTravelledInAir
       \/ InitAttributes
    /\ deps0 = deps
    /\ outs = <<>>
    /\ IdleSelectors
    /\ IdleParallel
    /\ IdleNotebook

\* the engine calls derive on a fresh node with the resolved dependencies
Invoke(r) ==
    /\ Len(outs) < MaxCalls
    /\ outs' = Append(outs, [self |-> r.self, exc |-> r.exc])
    /\ deps' = r.deps
    /\ UNCHANGED <<node, module, deps0, selVars, parVars, nbVars>>

CallSimpleAttribute ==
    /\ node = "SimpleAttribute"
    /\ Invoke(SimpleAttribute_derive(deps.start_datetime))

CallFileAttribute ==
    /\ node = "FileAttribute"
    /\ Invoke(FileAttribute_derive(deps.filename))

CallMydictAttribute ==
    /\ node = "MydictAttribute"
    /\ Invoke(MydictAttribute_derive(deps.mydict))

CallSimpleKTI ==
    /\ node = "SimpleKTI"
    /\ Invoke(SimpleKTI_derive(deps.start_datetime))

CallSimplerKTI ==
    /\ node = "SimplerKTI"
    /\ Invoke(SimplerKTI_derive(deps.start_datetime))

CallSimpleKPV ==
    /\ node = "SimpleKPV"
    /\ Invoke(SimpleKPV_derive(deps.start_datetime))

CallSimplerKPV ==
    /\ node = "SimplerKPV"
    /\ Invoke(SimplerKPV_derive(deps.start_datetime))

CallTCASRAStart ==
    /\ node = "TCASRAStart"
    /\ module = "example_profile"
    /\ Invoke(TCASRAStart_derive(deps.tcas, deps.air))

CallParallelTCASRAStart ==
    /\ node = "TCASRAStart"
    /\ module = "parallel_profile"
    /\ Invoke(parallel_TCASRAStart_derive(deps.tcas, deps.air))

CallInitialApproach ==
    /\ node = "InitialApproach"
    /\ module = "example_profile"
    /\ Invoke(InitialApproach_derive(deps.approach, deps.final))

CallParallelInitialApproach ==
    /\ node = "InitialApproach"
    /\ module = "parallel_profile"
    /\ Invoke(parallel_InitialApproach_derive(deps.approach, deps.final))

CallDistanceTravelledInAir ==
    /\ node = "DistanceTravelledInAir"
    /\ Invoke(DistanceTravelledInAir_derive(deps.airspeed, deps.grounded))

Next ==
    \/ CallSimpleAttribute
    \/ CallFileAttribute
    \/ CallMydictAttribute
    \/ CallSimpleKTI
    \/ CallSimplerKTI
    \/ CallSimpleKPV
    \/ CallSimplerKPV
    \/ CallTCASRAStart
    \/ CallParallelTCASRAStart
    \/ CallInitialApproach
    \/ CallParallelInitialApproach
    \/ CallDistanceTravelledInAir

Spec == Init /\ [][Next]_vars

---------------------------------------------------------------------------
(* parallel_profile.py run as a script: the driver and the engine pool      *)

\* most engines of the cluster
MaxEngines == 2

\* most flights in FILES_TO_PROCESS
MaxFlights == 3

Engines == 1..engine_count

PROFILE_NAME == "parallel_linux-HOSTNAME"
COMMENT == "test parallel linux"
LOG_LEVEL == "INFO"
MAKE_KML_FILES == FALSE
module_names == <<"parallel_profile">>
reports_dir == "PROFILE_REPORTS_PATH"
output_dir == <<"PROFILE_DATA_PATH", PROFILE_NAME, "/">>

\* the statements of the script from the first push to the end, in order
Script ==
    <<[op |-> "push", name |-> "module_names", value |-> module_names],
      [op |-> "push", name |-> "PROFILE_NAME", value |-> PROFILE_NAME],
      [op |-> "push", name |-> "COMMENT", value |-> COMMENT],
      [op |-> "push", name |-> "LOG_LEVEL", value |-> LOG_LEVEL],
      [op |-> "scatter", name |-> "files_to_process", value |-> ""],
      [op |-> "push", name |-> "file_repository", value |-> "FILE_REPOSITORY"],
      [op |-> "push", name |-> "MAKE_KML_FILES", value |-> MAKE_KML_FILES],
      [op |-> "makedirs", name |-> "", value |-> output_dir],
      [op |-> "push", name |-> "output_dir ", value |-> output_dir],
      [op |-> "push", name |-> "reports_dir ", value |-> reports_dir],
      [op |-> "apply", name |-> "eng_profile", value |-> ""],
      [op |-> "print", name |-> "", value |-> "done"]>>

\* the script has ended: after its last statement, or on an exception
Ended == Len(Script) + 1
Raised == Len(Script) + 2

\* the names eng_profile evaluates, in the order it evaluates them
EngProfileReads ==
    <<"LOG_LEVEL", "PROFILE_NAME", "module_names", "files_to_process",
      "output_dir", "reports_dir", "MAKE_KML_FILES", "COMMENT">>

\* dview[name] = value on one engine: the name, as spelled, is bound
push(namespace, name, value) == (name :> value) @@ namespace

\* the p-th (from 0) of q partitions of seq: the first len(seq) % q partitions
\* hold one element more than the others
getPartition(seq, p, q) ==
    LET remainder == Len(seq) % q
        basesize  == Len(seq) \div q
        lo == IF p < remainder THEN p * (basesize + 1) ELSE p * basesize + remainder
        hi == IF p < remainder THEN lo + basesize + 1 ELSE lo + basesize
    IN SubSeq(seq, lo + 1, hi)

\* dview.scatter(name, seq): engine e is sent the (e-1)-th partition
scatter(namespaces, name, seq) ==
    [e \in DOMAIN namespaces |->
        push(namespaces[e], name, getPartition(seq, e - 1, Cardinality(DOMAIN namespaces)))]

\* the repository tags the selectors of a module return
RepoTags(m) ==
    IF m = "parallel_profile"
    THEN {"keith", "NA", "central", "local", "linux"}
    ELSE {"linux", "cockpit", "keith", "central", "local"}

\* the state at line 236 of parallel_profile.py, or at line 279 of
\* example_profile.py: the selector has returned,
\* the client is connected and dview.block is True
InitParallel ==
    /\ module \in {"parallel_profile", "example_profile"}
    /\ pc = 1
    /\ FILE_REPOSITORY \in RepoTags(module)
    /\ FILES_TO_PROCESS \in {[i \in 1..n |-> i] : n \in 0..MaxFlights}
    /\ engine_count \in IF module = "parallel_profile" THEN 1..MaxEngines ELSE {0}
    /\ ns \in [1..engine_count -> {FreshNamespace, StaleNamespace}]
    /\ run_profile_calls = <<>>
    /\ eng = [e \in 1..engine_count |-> "idle"]
    /\ calls = [e \in 1..engine_count |-> <<>>]
    /\ runs = [e \in 1..engine_count |-> <<>>]
    /\ output_dir_exists \in BOOLEAN
    /\ IdleNodes
    /\ IdleSelectors
    /\ IdleNotebook

\* the statements of example_profile.py's script from the engine run on
\* (IS_PARALLEL = False)
ExampleScript ==
    <<[op |-> "run_profile", name |-> "", value |-> ""],
      [op |-> "report", name |-> "", value |-> ""]>>

\* the script that is running
Program == IF module = "example_profile" THEN ExampleScript ELSE Script

AtStatement(op) == pc \in 1..Len(Program) /\ Program[pc].op = op

\* status = helper.run_profile(PROFILE_NAME, module_names, LOG_LEVEL,
\*     FILES_TO_PROCESS, COMMENT, MAKE_KML_FILES, FILE_REPOSITORY, ...)
ExampleRunProfile ==
    /\ AtStatement("run_profile")
    /\ run_profile_calls' =
          <<[PROFILE_NAME |-> "Example", module_names |-> <<"example_profile">>,
             LOG_LEVEL |-> "WARNING", files_to_process |-> FILES_TO_PROCESS,
             COMMENT |-> "adding username", MAKE_KML_FILES |-> FALSE,
             file_repository |-> FILE_REPOSITORY]>>
    /\ pc' = pc + 1
    /\ UNCHANGED <<module, nodeVars, selVars, nbVars, FILE_REPOSITORY, FILES_TO_PROCESS,
                   engine_count, ns, eng, calls, runs, output_dir_exists>>

\* print 'time' ... print 'done with PROFILE: ...'
ExampleReport ==
    /\ AtStatement("report")
    /\ pc' = Ended
    /\ UNCHANGED <<module, nodeVars, selVars, nbVars, FILE_REPOSITORY, FILES_TO_PROCESS,
                   engine_count, ns, eng, calls, runs, output_dir_exists,
                   run_profile_calls>>

\* dview['name'] = value, blocking: every engine has bound the name on return
DriverPush ==
    /\ AtStatement("push")
    /\ ns' = [e \in Engines |->
                push(ns[e], Script[pc].name,
                     IF Script[pc].name = "file_repository"
                     THEN FILE_REPOSITORY ELSE Script[pc].value)]
    /\ pc' = pc + 1
    /\ UNCHANGED <<module, nodeVars, selVars, nbVars, FILE_REPOSITORY, FILES_TO_PROCESS,
                   engine_count, eng, calls, runs, output_dir_exists,
                   run_profile_calls>>

\* dview.scatter('files_to_process', FILES_TO_PROCESS)
DriverScatter ==
    /\ AtStatement("scatter")
    /\ ns' = scatter(ns, Script[pc].name, FILES_TO_PROCESS)
    /\ pc' = pc + 1
    /\ UNCHANGED <<module, nodeVars, selVars, nbVars, FILE_REPOSITORY, FILES_TO_PROCESS,
                   engine_count, eng, calls, runs, output_dir_exists,
                   run_profile_calls>>

\* if not os.path.exists(output_dir): os.makedirs(output_dir)
DriverMakedirs ==
    /\ AtStatement("makedirs")
    /\ output_dir_exists' = TRUE
    /\ pc' = pc + 1
    /\ UNCHANGED <<module, nodeVars, selVars, nbVars, FILE_REPOSITORY, FILES_TO_PROCESS,
                   engine_count, ns, eng, calls, runs, run_profile_calls>>

\* dview.apply(eng_profile): the call is sent to every engine; the driver
\* stays at this statement until the results are in
DriverApply ==
    /\ AtStatement("apply")
    /\ \A e \in Engines : eng[e] = "idle"
    /\ eng' = [e \in Engines |-> "queued"]
    /\ UNCHANGED <<module, nodeVars, selVars, nbVars, pc, FILE_REPOSITORY, FILES_TO_PROCESS,
                   engine_count, ns, calls, runs, output_dir_exists,
                   run_profile_calls>>

\* the first name eng_profile evaluates that the engine's namespace lacks
Unbound(namespace) ==
    {i \in 1..Len(EngProfileReads) : EngProfileReads[i] \notin DOMAIN namespace}

\* eng_profile on engine e up to the call of run_analyzer: the names are
\* looked up in the engine's namespace; a missing one raises NameError
eng_profile(namespace) ==
    IF Unbound(namespace) # {}
    THEN [state |-> "NameError", calls |-> <<>>]
    ELSE [state |-> "running",
          calls |-> <<[PROFILE_NAME |-> namespace["PROFILE_NAME"],
                       module_names |-> namespace["module_names"],
                       files_to_process |-> namespace["files_to_process"],
                       input_dir |-> "NA",
                       output_dir |-> namespace["output_dir"],
                       reports_dir |-> namespace["reports_dir"],
                       make_kml |-> namespace["MAKE_KML_FILES"],
                       comment |-> namespace["COMMENT"],
                       file_repository |-> "linux"]>>]

EngineStart(e) ==
    /\ eng[e] = "queued"
    /\ eng' = [eng EXCEPT ![e] = eng_profile(ns[e]).state]
    /\ calls' = [calls EXCEPT ![e] = eng_profile(ns[e]).calls]
    /\ UNCHANGED <<module, nodeVars, selVars, nbVars, pc, FILE_REPOSITORY, FILES_TO_PROCESS,
                   engine_count, ns, runs, output_dir_exists,
                   run_profile_calls>>

\* staged_helper.run_analyzer on engine e: the next flight of the list it was
\* called with
EngineProcess(e) ==
    /\ eng[e] = "running"
    /\ Len(runs[e]) < Len(calls[e][1].files_to_process)
    /\ runs' = [runs EXCEPT ![e] =
                  Append(@, calls[e][1].files_to_process[Len(runs[e]) + 1])]
    /\ UNCHANGED <<module, nodeVars, selVars, nbVars, pc, FILE_REPOSITORY, FILES_TO_PROCESS,
                   engine_count, ns, eng, calls, output_dir_exists,
                   run_profile_calls>>

\* run_analyzer and with it eng_profile return on engine e
EngineFinish(e) ==
    /\ eng[e] = "running"
    /\ Len(runs[e]) = Len(calls[e][1].files_to_process)
    /\ eng' = [eng EXCEPT ![e] = "done"]
    /\ UNCHANGED <<module, nodeVars, selVars, nbVars, pc, FILE_REPOSITORY, FILES_TO_PROCESS,
                   engine_count, ns, calls, runs, output_dir_exists,
                   run_profile_calls>>

\* a slip: the driver goes on as soon as one engine has failed or all are done
DriverGather_first_failure ==
    /\ AtStatement("apply")
    /\ \/ \E e \in Engines : eng[e] = "NameError"
       \/ \A e \in Engines : eng[e] = "done"
    /\ pc' = IF \E e \in Engines : eng[e] = "NameError" THEN Raised ELSE pc + 1
    /\ UNCHANGED <<module, nodeVars, selVars, nbVars, FILE_REPOSITORY, FILES_TO_PROCESS,
                   engine_count, ns, eng, calls, runs, output_dir_exists,
                   run_profile_calls>>

\* dview.apply returns (block = True): every engine has answered; a remote
\* exception is raised in the driver, which ends the script
DriverGather ==
    /\ AtStatement("apply")
    /\ \A e \in Engines : eng[e] \in {"done", "NameError"}
    /\ pc' = IF \E e \in Engines : eng[e] = "NameError" THEN Raised ELSE pc + 1
    /\ UNCHANGED <<module, nodeVars, selVars, nbVars, FILE_REPOSITORY, FILES_TO_PROCESS,
                   engine_count, ns, eng, calls, runs, output_dir_exists,
                   run_profile_calls>>

\* print 'apply time' ... print 'done'
DriverPrint ==
    /\ AtStatement("print")
    /\ pc' = Ended
    /\ UNCHANGED <<module, nodeVars, selVars, nbVars, FILE_REPOSITORY, FILES_TO_PROCESS,
                   engine_count, ns, eng, calls, runs, output_dir_exists,
                   run_profile_calls>>

NextParallel ==
    \/ DriverPush
    \/ DriverScatter
    \/ DriverMakedirs
    \/ DriverApply
    \/ \E e \in Engines : EngineStart(e)
    \/ \E e \in Engines : EngineProcess(e)
    \/ \E e \in Engines : EngineFinish(e)
    \/ DriverGather
    \/ DriverPrint
    \/ ExampleRunProfile
    \/ ExampleReport

SpecParallel == InitParallel /\ [][NextParallel]_vars

---------------------------------------------------------------------------
(* The state machine of a notebook using notebook_utils                    *)

InitNotebook ==
    /\ module = "notebook_utils"
    /\ figsize \in {FigsizeSmall, FigsizeLarge}
    /\ nb_log = <<>>
    /\ IdleNodes
    /\ IdleSelectors
    /\ IdleParallel

\* one call from the notebook and what it left
NbCall(fn, args, r) ==
    /\ Len(nb_log) < MaxNbCalls
    /\ nb_log' = Append(nb_log, [fn |-> fn, args |-> args, engine |-> r.engine,
                                  printed |-> r.printed, exc |-> r.exc])
    /\ UNCHANGED <<module, nodeVars, selVars, parVars>>

NoArgs == [class |-> "", flight |-> "", precomputed |-> {}, draw |-> ""]

Call_derive_many ==
    \E flt \in Flights_nb, myvars \in (SUBSET NodeClasses) \ {{}}, precomputed \in PrecomputedDicts :
        /\ NbCall("derive_many",
                  [NoArgs EXCEPT !.flight = flt, !.precomputed = precomputed],
                  derive_many(flt, myvars, precomputed))
        /\ UNCHANGED figsize

Call_derive_one ==
    \E parameter_class \in NodeClasses, flight \in Flights_nb, precomputed \in PrecomputedDicts :
        /\ NbCall("derive_one",
                  [NoArgs EXCEPT !.class = parameter_class, !.flight = flight,
                                 !.precomputed = precomputed],
                  derive_one(parameter_class, flight, precomputed))
        /\ UNCHANGED figsize

Call_derive_attr ==
    \E flight \in Flights_nb, precomputed \in PrecomputedDicts :
        /\ NbCall("derive_attr",
                  [NoArgs EXCEPT !.class = "SimpleAttribute", !.flight = flight,
                                 !.precomputed = precomputed],
                  derive_attr("SimpleAttribute", flight, precomputed))
        /\ UNCHANGED figsize

Call_show_graph ==
    \E draw \in DrawOutcomes :
        /\ NbCall("show_graph", [NoArgs EXCEPT !.draw = draw],
                  NbResult(<<>>, show_graph(draw).printed, show_graph(draw).exc))
        /\ figsize' = show_graph(draw).figsize

Call_single_graph ==
    \E parameter_class \in NodeClasses, flight \in Flights_nb, draw \in DrawOutcomes :
        LET r == single_graph(parameter_class, flight, draw)
        IN /\ NbCall("single_graph",
                     [NoArgs EXCEPT !.class = parameter_class, !.flight = flight,
                                    !.draw = draw],
                     NbResult(<<>>, r.printed, r.exc))
           /\ figsize' = r.figsize

NextNotebook ==
    \/ Call_derive_many
    \/ Call_derive_one
    \/ Call_derive_attr
    \/ Call_show_graph
    \/ Call_single_graph

SpecNotebook == InitNotebook /\ [][NextNotebook]_vars

---------------------------------------------------------------------------
(* InitialApproach: the claims                                             *)

\* x is the smallest start_edge of the sections
IsEarliestStartEdge(x, sections) ==
    /\ \E i \in 1..Len(sections) : sections[i].start_edge = x
    /\ \A i \in 1..Len(sections) : x <= sections[i].start_edge

\* C1: given non-empty 'Approach' and 'Final Approach' lists, every derive
\* invocation of InitialApproach leaves exactly one phase, whose slice runs from
\* the earliest start_edge of the approach sections to the earliest start_edge
\* of the final-approach sections (the unclipped edges, not slice.start).
C1_InitialApproachSlice ==
    (node = "InitialApproach" /\ Len(deps0.approach) > 0 /\ Len(deps0.final) > 0) =>
        \A k \in 1..Len(outs) :
            /\ Len(outs[k].self) = 1
            /\ IsEarliestStartEdge(outs[k].self[1].slice.start, deps0.approach)
            /\ IsEarliestStartEdge(outs[k].self[1].slice.stop, deps0.final)

\* C1's case: derive has run on two approach and two final-approach sections
\* whose earliest start_edge is no section's clipped slice.start
C1_Witness ==
    /\ node = "InitialApproach"
    /\ Len(outs) >= 1
    /\ Len(deps0.approach) = 2 /\ Len(deps0.final) = 2
    /\ deps0.approach[1].start_edge > deps0.approach[2].start_edge
    /\ \A i \in 1..2 : deps0.approach[i].slice.start # outs[1].self[1].slice.start
    /\ \A i \in 1..2 : deps0.final[i].slice.start # outs[1].self[1].slice.stop

\* C2: with an empty 'Approach' list or an empty 'Final Approach' list, derive
\* creates no phase and lets no exception escape.
C2_InitialApproachEmpty ==
    (node = "InitialApproach" /\ (Len(deps0.approach) = 0 \/ Len(deps0.final) = 0)) =>
        \A k \in 1..Len(outs) : outs[k].self = <<>> /\ outs[k].exc = "none"

\* C2's case: derive has run with exactly one of the two lists empty
C2_Witness ==
    /\ node = "InitialApproach"
    /\ Len(outs) >= 1
    /\ Len(deps0.approach) = 0
    /\ Len(deps0.final) > 0
    /\ outs[1].self = <<>>

---------------------------------------------------------------------------
(* DistanceTravelledInAir: the claims                                      *)

\* C3: derive leaves the sample array of the upstream 'Airspeed True'
\* parameter as it was, for every sample, those in 'Grounded' sections included.
C3_UpstreamAirspeedUnchanged ==
    node = "DistanceTravelledInAir" =>
        deps.airspeed.array = deps0.airspeed.array

\* sample index j (from 0) lies in the slice after its first sample
InsideAfterFirst(j, slice) == slice.start < j /\ j < slice.stop

\* C4: across every 'Grounded' section the integrated distance does not
\* change: each output sample of the section after its first is valid and equals
\* the sample before it, whatever the airspeed (valid or masked) was there.
C4_GroundedContributesZero ==
    node = "DistanceTravelledInAir" =>
        \A k \in 1..Len(outs) :
            outs[k].exc = "none" =>
                \A g \in 1..Len(deps0.grounded) :
                    \A j \in 1..(Len(deps0.airspeed.array) - 1) :
                        InsideAfterFirst(j, deps0.grounded[g].slice) =>
                            /\ ~outs[k].self.array[j + 1].m
                            /\ outs[k].self.array[j + 1].v = outs[k].self.array[j].v

\* C4's case: derive has integrated a series whose grounded section held a
\* masked sample and a valid non-zero sample, and the distance grows after it
C4_Witness ==
    /\ node = "DistanceTravelledInAir"
    /\ Len(outs) >= 1
    /\ outs[1].exc = "none"
    /\ Len(deps0.grounded) = 1
    /\ LET g == deps0.grounded[1].slice
           a == deps0.airspeed.array
           o == outs[1].self.array
       IN /\ g.stop - g.start >= 2
          /\ g.stop < Len(a)
          /\ \E j \in g.start..(g.stop - 1) : a[j + 1].m
          /\ \E j \in g.start..(g.stop - 1) : ~a[j + 1].m /\ a[j + 1].v > 0
          /\ o[g.stop + 1].v > o[g.stop].v

---------------------------------------------------------------------------
(* Idempotence                                                             *)

\* C5: a second derive invocation of any example node, on a fresh node and the
\* same resolved dependencies as the first left them, yields the records and
\* the outcome of the first.
C5_Idempotent ==
    \A k \in 1..Len(outs) : outs[k] = outs[1]

\* C5's case: a node whose first derive wrote into its dependencies has been
\* derived a second time
C5_Witness ==
    /\ Len(outs) = 2
    /\ deps # deps0
    /\ node = "DistanceTravelledInAir"
    /\ outs[1].exc = "none"
    /\ \E i \in 1..Len(deps0.airspeed.array) : deps0.airspeed.array[i].m /\ ~deps.airspeed.array[i].m

---------------------------------------------------------------------------
(* TCASRAStart: the claims                                                 *)

RA == {Up, Down}

\* sample index p (from 0) is a transition into the target advisory state:
\* example_profile does not tell Up from Down, parallel_profile scans for each
IsEntry(array, p) ==
    /\ 1 <= p /\ p < Len(array)
    /\ array[p + 1] \in RA
    /\ IF module = "example_profile" THEN array[p] \notin RA
       ELSE array[p] # array[p + 1]

\* the transition at p, from sample p - 1 to sample p, falls within a section
WithinPhase(p, phase) ==
    \E i \in 1..Len(phase) :
        phase[i].slice.start <= p - 1 /\ p < phase[i].slice.stop

\* C6: derive emits exactly one instant, at the transition's index, for each
\* transition of 'TCAS Combined Control' into the target advisory state that
\* falls within an 'Airborne' section, and no other instant.
C6_OneInstantPerEntry ==
    node = "TCASRAStart" =>
        \A k \in 1..Len(outs) :
            LET ktis == outs[k].self
            IN /\ \A p \in 0..(Len(deps0.tcas.array) - 1) :
                    Cardinality({i \in 1..Len(ktis) : ktis[i].index = p})
                        = IF IsEntry(deps0.tcas.array, p) /\ WithinPhase(p, deps0.air)
                          THEN 1 ELSE 0
               /\ \A i \in 1..Len(ktis) :
                    ktis[i].index \in 0..(Len(deps0.tcas.array) - 1)

\* C6's case: derive has emitted an instant for an entry inside the 'Airborne'
\* section and none for an entry into Down Advisory Corrective after it
C6_Witness ==
    /\ node = "TCASRAStart"
    /\ module = "example_profile"
    /\ Len(outs) >= 1
    /\ Len(outs[1].self) = 1
    /\ Len(deps0.air) = 1
    /\ \E p \in 1..(Len(deps0.tcas.array) - 1) :
          /\ IsEntry(deps0.tcas.array, p)
          /\ deps0.tcas.array[p + 1] = Down
          /\ p >= deps0.air[1].slice.stop

---------------------------------------------------------------------------
(* The selectors: the claims                                               *)

GlobSelectors == {"tiny_test", "ffd_test10", "test10_scratch", "test10", "test100"}

QuerySelectors ==
    {"test_sql_jfk", "test_sql_jfk_local", "fll_local", "jfk_local",
     "test_multifleet", "test_kpv_range"}

\* C7: every selector function, of either module and either strategy, returns
\* a pair whose first element is the repository tag (a string) and whose second
\* is the list of file paths.
C7_SelectorShape ==
    selector # "" =>
        /\ Len(ret) = 2
        /\ ret[1].type = "str"
        /\ ret[2].type = "list"

\* C7's case: a query-strategy selector has returned a tag and two paths or more
C7_Witness ==
    /\ selector = "test_kpv_range"
    /\ Len(ret) = 2
    /\ ret[1].v = "linux"
    /\ Len(ret[2].v) >= 2

\* the directory a filesystem-strategy selector is configured with
ConfiguredDir(name) ==
    CASE name = "tiny_test" -> TinyTestDir
      [] name = "ffd_test10" -> Ffd897Dir
      [] name = "test10_scratch" -> ScratchTest10Dir
      [] name = "test10" -> Test10Dir
      [] name = "test100" -> Test100Dir

\* N: the files of the directory that match *.hdf5
MatchingFiles(dir) == {i \in 1..Len(fs[dir]) : fs[dir][i].ext = HDF5}

\* every returned path is one of the directory's *.hdf5 files, and none twice
PathsAreMatchingFiles(paths, dir) ==
    /\ \A i \in 1..Len(paths) :
          /\ paths[i].dir = dir
          /\ paths[i].name.ext = HDF5
          /\ \E j \in MatchingFiles(dir) : fs[dir][j] = paths[i].name
    /\ \A i, j \in 1..Len(paths) : paths[i] = paths[j] => i = j

\* C8 as stated: a filesystem-strategy selector returns exactly the N matching
\* files of its directory, each under that directory, and no other file.
C8_GlobReturnsAllMatching ==
    selector \in GlobSelectors =>
        /\ Len(ret[2].v) = Cardinality(MatchingFiles(ConfiguredDir(selector)))
        /\ PathsAreMatchingFiles(ret[2].v, ConfiguredDir(selector))

\* C8 amended: the same, except that test100 returns the first 100 of the
\* matching files when there are more than 100.
C8_GlobReturnsMatchingUpToCap ==
    selector \in GlobSelectors =>
        LET N == Cardinality(MatchingFiles(ConfiguredDir(selector)))
        IN /\ Len(ret[2].v) =
                IF selector = "test100" /\ N > Test100Cap THEN Test100Cap ELSE N
           /\ PathsAreMatchingFiles(ret[2].v, ConfiguredDir(selector))
           /\ ret[2].v = SubSeq(retrieved, 1, Len(ret[2].v))

\* C8's case: test100 has read a directory of 101 matching files and another
C8_Witness ==
    /\ selector = "test100"
    /\ Cardinality(MatchingFiles(Test100Dir)) = Test100Cap + 1
    /\ Len(fs[Test100Dir]) > Test100Cap + 1
    /\ Len(ret[2].v) = Test100Cap

\* the query with the row limits of its branches taken out
Unlimited(q) ==
    [q EXCEPT !.branches =
        [i \in 1..Len(q.branches) |-> [q.branches[i] EXCEPT !.rownum = NoLimit]]]

\* the cap the selector itself applies to what the query returned
HasCallerCap ==
    \/ selector = "test_sql_jfk"
    \/ selector = "test_kpv_range" /\ module = "example_profile"

CappedByCaller(paths) ==
    IF HasCallerCap /\ Len(paths) > QueryCap THEN SubSeq(paths, 1, QueryCap) ELSE paths

\* C9 as stated: no query limits its own result; the selector returns the
\* first K of the N paths the query selects when its cap K < N, and all N
\* otherwise.
C9_CapOnlyByCaller ==
    selector \in QuerySelectors =>
        ret[2].v = CappedByCaller(flight_record_filepaths(Unlimited(query), table))

\* C9 amended: the selector returns the first K of the N paths the query
\* returned when its cap K < N and all N otherwise; the query returns every
\* selected row, except test_multifleet's, which returns the first 5 rows of
\* each fleet.
C9_CallerCapAfterRetrieval ==
    selector \in QuerySelectors =>
        /\ ret[2].v = CappedByCaller(retrieved)
        /\ selector # "test_multifleet" =>
              retrieved = flight_record_filepaths(Unlimited(query), table)
        /\ selector = "test_multifleet" =>
              \A f \in AnyFleet \ {"B737-800"} :
                  LET of_fleet == {i \in 1..Len(table) :
                                      /\ table[i].fleet_series = f
                                      /\ table[i].file_repository = "linux"}
                  IN Cardinality({i \in 1..Len(retrieved) :
                          \E j \in of_fleet : table[j].file_path = retrieved[i]})
                       = IF Cardinality(of_fleet) > FleetRownum
                         THEN FleetRownum ELSE Cardinality(of_fleet)

\* C9's case: test_sql_jfk's query has returned 41 paths, not in rising order,
\* and the selector the first 40
C9_Witness ==
    /\ selector = "test_sql_jfk"
    /\ Len(retrieved) = QueryCap + 1
    /\ retrieved[1] > retrieved[2]
    /\ Len(ret[2].v) = QueryCap


---------------------------------------------------------------------------
(* The parallel driver: the claims                                          *)

\* how often x occurs in seq
Occurrences(seq, x) == Cardinality({i \in DOMAIN seq : seq[i] = x})

RECURSIVE TimesIn(_, _, _)
\* how often x occurs in the sequences f[1], ..., f[n] together
TimesIn(f, n, x) ==
    IF n = 0 THEN 0 ELSE Occurrences(f[n], x) + TimesIn(f, n - 1, x)

\* the flights of FILES_TO_PROCESS
Flights == {FILES_TO_PROCESS[i] : i \in DOMAIN FILES_TO_PROCESS}

\* the partition engine e holds once the scatter is done
Share(e) == ns[e]["files_to_process"]

Scattered == \A e \in Engines : "files_to_process" \in DOMAIN ns[e]

PastApply == pc \in 1..Len(Script) + 2 /\ (pc > Len(Script) \/ Script[pc].op = "print")

\* engine e has completed its round: eng_profile has returned or has raised
Completed(e) ==
    \/ eng[e] = "NameError"
    \/ eng[e] = "done" /\ runs[e] = calls[e][1].files_to_process

\* C11: the gather is synchronous: the driver is past the apply of the remote
\* procedure (at the printout, at 'done', or stopped by the remote failure)
\* only when every engine of the pool has completed its round; a failure is
\* seen by the driver only then, and the engines that did not fail have run
\* their whole share, none being cancelled.
C11_GatherSynchronous ==
    PastApply => \A e \in Engines : Completed(e)

\* the driver has seen a remote failure while another engine, which had
\* flights to process, ran its whole share
C11_Witness ==
    /\ pc = Raised
    /\ \E e \in Engines : eng[e] = "NameError"
    /\ \E e \in Engines : eng[e] = "done" /\ Len(runs[e]) > 0


\* C12: in both driver scripts the file list and the repository tag handed to
\* the engine run are the pair the selector returned: every run_profile call
\* of the example script and every run_analyzer call on an engine carries
\* FILE_REPOSITORY as its repository tag, the example script hands over
\* FILES_TO_PROCESS and an engine its share of it.
C12_SelectorPairHandedOver ==
    /\ \A i \in DOMAIN run_profile_calls :
          /\ run_profile_calls[i].file_repository = FILE_REPOSITORY
          /\ run_profile_calls[i].files_to_process = FILES_TO_PROCESS
    /\ \A e \in Engines : \A i \in DOMAIN calls[e] :
          /\ calls[e][i].file_repository = FILE_REPOSITORY
          /\ calls[e][i].files_to_process = getPartition(FILES_TO_PROCESS, e - 1, engine_count)


\* eng_profile has been applied: it is queued, running or over on some engine
Applied == \E e \in Engines : eng[e] # "idle"

\* C18: in the parallel driver, once eng_profile is applied every name it
\* reads (LOG_LEVEL, PROFILE_NAME, module_names, files_to_process,
\* output_dir, reports_dir, MAKE_KML_FILES, COMMENT) is bound under exactly
\* that name in every engine's namespace, and the output directory exists.
C18_NamespaceBuiltBeforeApply ==
    Applied =>
        /\ \A e \in Engines : \A i \in DOMAIN EngProfileReads :
              EngProfileReads[i] \in DOMAIN ns[e]
        /\ output_dir_exists


---------------------------------------------------------------------------
(* DistanceTravelledInAir: the order of the steps                           *)

\* sample index j (from 0) lies in one of the sections
InSections(j, sections) ==
    \E g \in 1..Len(sections) :
        sections[g].slice.start <= j /\ j < sections[g].slice.stop

\* the array with the data under every masked sample replaced by v
Blanked(array, v) ==
    [i \in 1..Len(array) |-> IF array[i].m THEN Sample(v, TRUE) ELSE array[i]]

\* C15: derive zeroes every 'Grounded' slice, then repairs the masks, then
\* integrates: the array integrated is the mask repair of the zeroed array, in
\* it every grounded sample is a valid zero, the data under a sample still
\* masked adds nothing to the sum, and the node's array is that integral.
C15_ZeroRepairIntegrate ==
    node = "DistanceTravelledInAir" =>
        \A k \in 1..Len(outs) :
            outs[k].exc = "none" =>
                LET zeroed   == zero_sections(deps0.airspeed.array, deps0.grounded)
                    repaired == repair_mask(zeroed)
                IN /\ deps.airspeed.array = repaired
                   /\ \A j \in 0..(Len(repaired) - 1) :
                         InSections(j, deps0.grounded) => repaired[j + 1] = Sample(0, FALSE)
                   /\ outs[k].self.array = integrate(repaired)
                   /\ outs[k].self.array = integrate(Blanked(repaired, 0))
                   /\ outs[k].self.array = integrate(Blanked(repaired, 7 * Unit))

\* C15's case: derive has integrated a series in which a masked sample next
\* to a grounded, valid, non-zero sample was repaired from the zero put there,
\* and a sample at the end stayed masked
C15_Witness ==
    /\ node = "DistanceTravelledInAir"
    /\ Len(outs) >= 1
    /\ outs[1].exc = "none"
    /\ LET a == deps0.airspeed.array
           r == deps.airspeed.array
       IN /\ Len(a) >= 4
          /\ ~a[1].m /\ a[1].v > 0 /\ InSections(0, deps0.grounded)
          /\ a[2].m /\ ~InSections(1, deps0.grounded)
          /\ ~r[2].m /\ r[2].v < Unit
          /\ r[Len(r)].m
          /\ outs[1].self.array[3].v > 0


---------------------------------------------------------------------------
(* TCASRAStart: first samples, and Up against Down                          *)

\* sample index p (from 0) is the first sample of the series or of a section
FirstSample(p, phase) ==
    \/ p = 0
    \/ \E i \in 1..Len(phase) : phase[i].slice.start = p

\* the indices of the instants
Indices(ktis) == {ktis[i].index : i \in 1..Len(ktis)}

\* C16: no instant is emitted for the first sample of the series or for the
\* first sample of an 'Airborne' section, also when the series is in the
\* target advisory state there: without a preceding sample in the section no
\* transition is observable.
C16_NoInstantAtFirstSample ==
    node = "TCASRAStart" =>
        \A k \in 1..Len(outs) :
            \A p \in 0..(Len(deps0.tcas.array) - 1) :
                FirstSample(p, deps0.air) => p \notin Indices(outs[k].self)

\* C16's case: derive has scanned a series that is in the advisory state at
\* its very first sample, and that enters the advisory state exactly at the
\* first sample of an 'Airborne' section which begins later
C16_Witness ==
    /\ node = "TCASRAStart"
    /\ Len(outs) >= 1
    /\ deps0.tcas.array[1] \in RA
    /\ \E i \in 1..Len(deps0.air) :
          LET p == deps0.air[i].slice.start
          IN /\ p >= 2
             /\ p < Len(deps0.tcas.array)
             /\ deps0.tcas.array[p + 1] \in RA
             /\ deps0.tcas.array[p] \notin RA
             /\ deps0.air[i].slice.stop > p + 1

\* C17: example_profile's TCASRAStart does not tell Up from Down: within an
\* 'Airborne' section an instant is emitted at a sample exactly when the
\* sample is in {Up, Down} and the sample before it is in neither; a change
\* from Up to Down or from Down to Up emits none; and every instant is named
\* 'TCAS RA Start'.
C17_UpAndDownAreOneState ==
    (node = "TCASRAStart" /\ module = "example_profile") =>
        \A k \in 1..Len(outs) :
            LET a == deps0.tcas.array
                ktis == outs[k].self
            IN /\ \A p \in 1..(Len(a) - 1) :
                     WithinPhase(p, deps0.air) =>
                        (p \in Indices(ktis) <=> (a[p + 1] \in RA /\ a[p] \notin RA))
               /\ \A p \in 1..(Len(a) - 1) :
                     (a[p] \in RA /\ a[p + 1] \in RA) => p \notin Indices(ktis)
               /\ \A i \in 1..Len(ktis) : ktis[i].name = "TCAS RA Start"

\* C17's case: inside one 'Airborne' section the series has entered Down from
\* no advisory and later changed from Down to Up, and derive has emitted one
\* instant, for the entry
C17_Witness ==
    /\ node = "TCASRAStart"
    /\ module = "example_profile"
    /\ Len(outs) >= 1
    /\ Len(deps0.air) = 1
    /\ LET a == deps0.tcas.array
       IN \E p \in 1..(Len(a) - 2) :
             /\ a[p] \notin RA /\ a[p + 1] = Down /\ a[p + 2] = Up
             /\ WithinPhase(p, deps0.air) /\ WithinPhase(p + 1, deps0.air)
             /\ Indices(outs[1].self) = {p}


---------------------------------------------------------------------------
(* InitialApproach: the interval                                            *)

\* C19: whenever InitialApproach.derive produces a phase, its start (the
\* earliest approach start_edge) is less than or equal to its stop (the
\* earliest final-approach start_edge), for every pair of non-empty
\* 'Approach' and 'Final Approach' section lists.
C19_PhaseWellFormed ==
    node = "InitialApproach" =>
        \A k \in 1..Len(outs) : \A i \in 1..Len(outs[k].self) :
            outs[k].self[i].slice.start <= outs[k].self[i].slice.stop


---------------------------------------------------------------------------
(* notebook_utils: the claims                                               *)

GraphHelpers == {"show_graph", "single_graph"}
DeriveHelpers == {"derive_many", "derive_one", "derive_attr"}

\* C13: whenever the drawing or the layout of the graph raises, show_graph
\* still returns normally and no exception reaches its caller; the same holds
\* for single_graph, which calls it.
C13_DrawingFailuresSwallowed ==
    \A i \in 1..Len(nb_log) :
        nb_log[i].fn \in GraphHelpers => nb_log[i].exc = "none"

\* C13's case: show_graph and single_graph have both been called with a
\* drawing that raised
C13_Witness ==
    /\ \E i \in 1..Len(nb_log) :
          nb_log[i].fn = "show_graph" /\ nb_log[i].args.draw = "NetworkXError"
    /\ \E i \in 1..Len(nb_log) :
          nb_log[i].fn = "single_graph" /\ nb_log[i].args.draw = "KeyboardInterrupt"

\* C14: derive_many, derive_one and derive_attr hand the caller's precomputed
\* dict to the engine's derivation call, so that a node in it is treated as
\* already computed and is not derived again.
C14_CallerPrecomputedUsed ==
    \A i \in 1..Len(nb_log) :
        nb_log[i].fn \in DeriveHelpers =>
            \A j \in 1..Len(nb_log[i].engine) :
                /\ nb_log[i].engine[j].precomputed = nb_log[i].args.precomputed
                /\ nb_log[i].engine[j].derived \cap nb_log[i].args.precomputed = {}

====
